---- MODULE Spec2Model ----
(***************************************************************************)
(* Model of the recycling dashboard's loader and aggregator (src/app.py):  *)
(* load_and_process_data, calculate_recycling_rate and analyze_recycling.  *)
(*                                                                         *)
(* Weights are integers counted in tenths of a tonne; a missing weight     *)
(* (NaN) is the empty tuple and a present weight w is <<w>>.  Rates and    *)
(* means are exact fractions <<n, d>> in lowest terms with d > 0, so the   *)
(* model computes what the float arithmetic of the program approximates.   *)
(* A pandas table is the sequence of its rows, in row order.  The text of  *)
(* a SERVICE DATE cell is the sequence of its characters; the model reads  *)
(* dates written YYYY-MM-DD, with or without a time after a T.             *)
(***************************************************************************)
EXTENDS Integers, Sequences, FiniteSets, TLC

\* Longest uploaded file the model enumerates exhaustively.
MaxRows == 2

-----------------------------------------------------------------------------
(* Sequences *)

Range(s) == {s[i] : i \in 1..Len(s)}

\* df[mask], the rows that satisfy a mask in their original order, is
\* SelectSeq; a column of a table is the sequence of its rows' values.

\* Series.unique(): the distinct values in order of first appearance.
RECURSIVE Unique(_)
Unique(s) ==
    IF s = <<>> THEN <<>>
    ELSE LET front == Unique(SubSeq(s, 1, Len(s) - 1))
             last  == s[Len(s)]
         IN  IF last \in Range(front) THEN front ELSE Append(front, last)

-----------------------------------------------------------------------------
(* Exact arithmetic standing for the program's floats *)

RECURSIVE GCD(_, _)
GCD(a, b) == IF b = 0 THEN a ELSE GCD(b, a % b)

Abs(x) == IF x < 0 THEN -x ELSE x

\* n / d in lowest terms, d # 0.
Frac(n, d) ==
    LET g == GCD(Abs(n), Abs(d))
        s == IF d < 0 THEN -1 ELSE 1
    IN  <<(s * n) \div g, (s * d) \div g>>

FracAdd(a, b) == Frac(a[1] * b[2] + b[1] * a[2], a[2] * b[2])
FracMul(a, b) == Frac(a[1] * b[1], a[2] * b[2])
FracLess(a, b) == a[1] * b[2] < b[1] * a[2]
FracZero == <<0, 1>>

\* A weight of w tenths of a tonne, in tonnes.
Tonnes(w) == Frac(w, 10)

-----------------------------------------------------------------------------
(* Calendar: what pandas derives from SERVICE DATE *)

IsLeap(y) == (y % 4 = 0) /\ ((y % 100 # 0) \/ (y % 400 = 0))

DaysInMonth(y, m) ==
    IF m = 2 THEN (IF IsLeap(y) THEN 29 ELSE 28)
    ELSE IF m \in {4, 6, 9, 11} THEN 30 ELSE 31

RECURSIVE DaysBeforeMonth(_, _)
DaysBeforeMonth(y, m) ==
    IF m = 1 THEN 0 ELSE DaysBeforeMonth(y, m - 1) + DaysInMonth(y, m - 1)

DaysBeforeYear(y) ==
    365 * (y - 1) + ((y - 1) \div 4) - ((y - 1) \div 100) + ((y - 1) \div 400)

\* Proleptic Gregorian ordinal of a date; orders the dates.
ToOrdinal(date) ==
    DaysBeforeYear(date.y) + DaysBeforeMonth(date.y, date.m) + date.d

\* 0 = Monday ... 6 = Sunday.
Weekday(date) == (ToOrdinal(date) + 6) % 7

DayNames ==
    <<"Monday", "Tuesday", "Wednesday", "Thursday", "Friday", "Saturday", "Sunday">>

MonthNames ==
    <<"January", "February", "March", "April", "May", "June", "July",
      "August", "September", "October", "November", "December">>

\* Series.dt.day_name()
day_name(date) == DayNames[Weekday(date) + 1]

\* Series.dt.strftime('%B'): the month's name, without the year.
month_name(date) == MonthNames[date.m]

\* Ordinal of the Monday that starts ISO week 1 of year y.
IsoWeek1Monday(y) ==
    LET firstday     == ToOrdinal([y |-> y, m |-> 1, d |-> 1])
        firstweekday == (firstday + 6) % 7
        monday       == firstday - firstweekday
    IN  IF firstweekday > 3 THEN monday + 7 ELSE monday

\* Series.dt.isocalendar().week: the ISO week number, without the ISO year.
iso_week(date) ==
    LET today == ToOrdinal(date)
        start == IsoWeek1Monday(date.y)
    IN  IF today < start
        THEN ((today - IsoWeek1Monday(date.y - 1)) \div 7) + 1
        ELSE IF today >= IsoWeek1Monday(date.y + 1)
             THEN 1
             ELSE ((today - start) \div 7) + 1

-----------------------------------------------------------------------------
(* Loader *)

get_hotel_name(postcode) ==
    CASE postcode = "EC3N 1AX" -> "Canopy"
      [] postcode = "SW1V 1QF" -> "CIV"
      [] postcode = "W2 1EG"   -> "CIE"
      [] postcode = "NW1 7BY"  -> "Camden"
      [] postcode = "SW1V 1RG" -> "EH"
      [] postcode = "NW1 6UB"  -> "Head Office"
      [] OTHER                 -> "Unknown"

Digits == <<"0", "1", "2", "3", "4", "5", "6", "7", "8", "9">>

IsDigit(c) == c \in Range(Digits)

DigitValue(c) == CHOOSE n \in 0..9 : Digits[n + 1] = c

\* .str.split('T').str[0]: the text before the first T.
RECURSIVE DatePart(_)
DatePart(text) ==
    IF text = <<>> \/ text[1] = "T" THEN <<>>
    ELSE <<text[1]>> \o DatePart(Tail(text))

TextYear(text) ==
    1000 * DigitValue(text[1]) + 100 * DigitValue(text[2])
      + 10 * DigitValue(text[3]) + DigitValue(text[4])
TextMonth(text) == 10 * DigitValue(text[6]) + DigitValue(text[7])
TextDay(text)   == 10 * DigitValue(text[9]) + DigitValue(text[10])

\* Whether pd.to_datetime reads the text as a date: YYYY-MM-DD naming a day
\* of the calendar.
IsDateText(text) ==
    /\ Len(text) = 10
    /\ text[5] = "-" /\ text[8] = "-"
    /\ \A i \in {1, 2, 3, 4, 6, 7, 9, 10} : IsDigit(text[i])
    /\ TextYear(text) >= 1
    /\ TextMonth(text) \in 1..12
    /\ TextDay(text) \in 1..DaysInMonth(TextYear(text), TextMonth(text))

\* pd.to_datetime of one text that it can read.
to_datetime(text) ==
    [y |-> TextYear(text), m |-> TextMonth(text), d |-> TextDay(text)]

\* One row of the loaded table: the CSV's columns and the derived ones.
LoadRow(raw) ==
    LET date == to_datetime(DatePart(raw.date))
    IN  [date      |-> date,
         postcode  |-> raw.postcode,
         type      |-> raw.type,
         weight    |-> raw.weight,
         Hotel     |-> get_hotel_name(raw.postcode),
         DayOfWeek |-> day_name(date),
         Month     |-> month_name(date)]

\* The rows with an unreadable date left out and the rest loaded.
load_and_process_data_SkipUnreadable(file) ==
    LET readable == SelectSeq(file, LAMBDA raw : IsDateText(DatePart(raw.date)))
    IN  [status |-> "loaded",
         df     |-> [i \in 1..Len(readable) |-> LoadRow(readable[i])]]

\* The loaded table, or the ValueError pd.to_datetime raises for the whole
\* column when it cannot read one of its texts.
load_and_process_data(file) ==
    IF \E i \in 1..Len(file) : ~IsDateText(DatePart(file[i].date))
    THEN [status |-> "ValueError", df |-> <<>>]
    ELSE [status |-> "loaded",
          df     |-> [i \in 1..Len(file) |-> LoadRow(file[i])]]

-----------------------------------------------------------------------------
(* Rate calculator *)

notna(weight) == weight # <<>>

\* The mask with >= in the place of >: zero weights are kept.
PositiveWeight_ZeroKept(row) == notna(row.weight) /\ row.weight[1] >= 0

\* The mask without its comparison: negative weights are kept.
PositiveWeight_NotnaOnly(row) == notna(row.weight)

\* The mask  WEIGHT.notna() & (WEIGHT > 0) ; NaN > 0 is False.
PositiveWeight(row) == notna(row.weight) /\ row.weight[1] > 0

RecyclableTypes == {"Mixed Recycling", "Glass", "Cardboard"}

\* Series.sum() of the WEIGHT column of a table without missing weights.
RECURSIVE SumWeight(_)
SumWeight(rows) ==
    IF rows = <<>> THEN 0 ELSE rows[1].weight[1] + SumWeight(Tail(rows))

\* Whatever is neither recyclable nor food counted as general waste.
IsGeneral_Rest(row) == row.type \notin (RecyclableTypes \cup {"Food Waste"})

IsRecyclable(row) == row.type \in RecyclableTypes
IsGeneral(row)    == row.type = "General Waste"
IsFood(row)       == row.type = "Food Waste"

\* recyclable / total * 100 if total > 0 else 0
RatePercent(recyclable, total) ==
    IF total > 0 THEN Frac(100 * recyclable, total) ELSE FracZero

\* The total without the food weight.
calculate_recycling_rate_NoFood(subset_df) ==
    LET sub        == SelectSeq(subset_df, PositiveWeight)
        recyclable == SumWeight(SelectSeq(sub, IsRecyclable))
        general    == SumWeight(SelectSeq(sub, IsGeneral))
        food       == SumWeight(SelectSeq(sub, IsFood))
        total      == recyclable + general
    IN  [rate |-> RatePercent(recyclable, total), food |-> food, total |-> total]

calculate_recycling_rate(subset_df) ==
    LET sub        == SelectSeq(subset_df, PositiveWeight)
        recyclable == SumWeight(SelectSeq(sub, IsRecyclable))
        general    == SumWeight(SelectSeq(sub, IsGeneral))
        food       == SumWeight(SelectSeq(sub, IsFood))
        total      == recyclable + general + food
    IN  [rate |-> RatePercent(recyclable, total), food |-> food, total |-> total]

-----------------------------------------------------------------------------
(* Aggregator *)

Week(row) == iso_week(row.date)

\* Series.min() of a non-empty column of dates.
MinDate(dates) ==
    CHOOSE a \in Range(dates) : \A b \in Range(dates) : ToOrdinal(a) <= ToOrdinal(b)

RECURSIVE Concat(_)
Concat(tables) ==
    IF tables = <<>> THEN <<>> ELSE tables[1] \o Concat(Tail(tables))

\* The rows appended for one week by the loop over week_data's weekdays.
WeekRows(df, week) ==
    LET week_data  == SelectSeq(df, LAMBDA r : Week(r) = week)
        week_start == MinDate([k \in 1..Len(week_data) |-> week_data[k].date])
        days       == Unique([k \in 1..Len(week_data) |-> week_data[k].DayOfWeek])
    IN  [j \in 1..Len(days) |->
            LET c == calculate_recycling_rate(
                         SelectSeq(week_data, LAMBDA r : r.DayOfWeek = days[j]))
            IN  [Week |-> week, WeekStart |-> week_start, DayOfWeek |-> days[j],
                 RecyclingRate |-> c.rate, FoodWaste |-> c.food,
                 TotalWaste |-> c.total]]

WeeklyDailyRates(df) ==
    LET weeks == Unique([k \in 1..Len(df) |-> Week(df[k])])
    IN  Concat([i \in 1..Len(weeks) |-> WeekRows(df, weeks[i])])

MonthlyRates(df) ==
    LET months == Unique([k \in 1..Len(df) |-> df[k].Month])
    IN  [i \in 1..Len(months) |->
            LET c == calculate_recycling_rate(
                         SelectSeq(df, LAMBDA r : r.Month = months[i]))
            IN  [Month |-> months[i], RecyclingRate |-> c.rate,
                 FoodWaste |-> c.food, TotalWaste |-> c.total]]

\* The group keys' dates, ascending, as groupby sorts them.
SortedDates(df) ==
    SortSeq(Unique([k \in 1..Len(df) |-> df[k].date]),
            LAMBDA a, b : ToOrdinal(a) < ToOrdinal(b))

\* groupby(['SERVICE DATE', 'WASTE TYPE'])['WEIGHT (TONNES)'].sum() for one
\* date: one row per waste type of that date.  The order of the types within
\* a date plays no part in what follows.
GroupedDay(df, date) ==
    LET rows  == SelectSeq(df, LAMBDA r : r.date = date)
        types == Unique([k \in 1..Len(rows) |-> rows[k].type])
    IN  [i \in 1..Len(types) |->
            [date |-> date, type |-> types[i],
             weight |-> <<SumWeight(SelectSeq(rows, LAMBDA r : r.type = types[i]))>>]]

DailyData(df) ==
    LET dates == SortedDates(df)
    IN  Concat([i \in 1..Len(dates) |-> GroupedDay(df, dates[i])])

\* The row the loop over dates computes for one date.
DailyRow(daily_data, date) ==
    LET day_data   == SelectSeq(daily_data, LAMBDA r : r.date = date)
        recyclable == SumWeight(SelectSeq(day_data, IsRecyclable))
        general    == SumWeight(SelectSeq(day_data, IsGeneral))
        food       == SumWeight(SelectSeq(day_data, IsFood))
        total      == recyclable + general + food
    IN  [date |-> date,
         recycling_rate |-> IF total > 0 THEN Frac(100 * recyclable, total)
                            ELSE FracZero,
         recyclable |-> recyclable, general |-> general,
         food_waste |-> food, total_waste |-> total]

\* Only the dates with recyclable weight appended.
DailyDf_RecyclableOnly(df) ==
    LET daily_data == DailyData(df)
        dates      == Unique([k \in 1..Len(daily_data) |-> daily_data[k].date])
    IN  SelectSeq([i \in 1..Len(dates) |-> DailyRow(daily_data, dates[i])],
               LAMBDA row : row.recyclable > 0)

\* Only the dates with total > 0 are appended.
DailyDf(df) ==
    LET daily_data == DailyData(df)
        dates      == Unique([k \in 1..Len(daily_data) |-> daily_data[k].date])
    IN  SelectSeq([i \in 1..Len(dates) |-> DailyRow(daily_data, dates[i])],
               LAMBDA row : row.total_waste > 0)

\* day_rates before the Total Waste > 0 mask.
DayRatesAll(df) ==
    LET days == Unique([k \in 1..Len(df) |-> df[k].DayOfWeek])
    IN  [i \in 1..Len(days) |->
            LET c == calculate_recycling_rate(
                         SelectSeq(df, LAMBDA r : r.DayOfWeek = days[i]))
            IN  [DayOfWeek |-> days[i], RecyclingRate |-> c.rate,
                 FoodWaste |-> c.food, TotalWaste |-> c.total]]

\* The mask with >= in the place of >.
HasTotalWaste_Any(row) == row.TotalWaste >= 0

HasTotalWaste(row) == row.TotalWaste > 0

\* The table without the Total Waste > 0 mask.
DayRates_NoMask(df) == DayRatesAll(df)

DayRates(df) == SelectSeq(DayRatesAll(df), HasTotalWaste)

\* The last row holding the greatest rate.
IdxMax_Last(day_rates) ==
    CHOOSE i \in 1..Len(day_rates) :
        /\ \A j \in 1..Len(day_rates) :
               ~FracLess(day_rates[i].RecyclingRate, day_rates[j].RecyclingRate)
        /\ \A j \in (i + 1)..Len(day_rates) :
               FracLess(day_rates[j].RecyclingRate, day_rates[i].RecyclingRate)

\* Series.idxmax(): the first row holding the greatest rate.
IdxMax(day_rates) ==
    CHOOSE i \in 1..Len(day_rates) :
        /\ \A j \in 1..Len(day_rates) :
               ~FracLess(day_rates[i].RecyclingRate, day_rates[j].RecyclingRate)
        /\ \A j \in 1..(i - 1) :
               FracLess(day_rates[j].RecyclingRate, day_rates[i].RecyclingRate)

\* Series.idxmin(): the first row holding the least rate.
IdxMin(day_rates) ==
    CHOOSE i \in 1..Len(day_rates) :
        /\ \A j \in 1..Len(day_rates) :
               ~FracLess(day_rates[j].RecyclingRate, day_rates[i].RecyclingRate)
        /\ \A j \in 1..(i - 1) :
               FracLess(day_rates[i].RecyclingRate, day_rates[j].RecyclingRate)

NoData == [DayOfWeek |-> "No Data", RecyclingRate |-> FracZero]

BestDay(day_rates) ==
    IF day_rates # <<>> THEN day_rates[IdxMax(day_rates)] ELSE NoData

WorstDay(day_rates) ==
    IF day_rates # <<>> THEN day_rates[IdxMin(day_rates)] ELSE NoData

RECURSIVE SumRates(_)
SumRates(day_rates) ==
    IF day_rates = <<>> THEN FracZero
    ELSE FracAdd(day_rates[1].RecyclingRate, SumRates(Tail(day_rates)))

\* Series.mean() of the Recycling Rate column of a non-empty table.
MeanRate(day_rates) == FracMul(SumRates(day_rates), Frac(1, Len(day_rates)))

\* The mean itself as the limit.
LowRateLimit_Mean(day_rates) == MeanRate(day_rates)

\* avg_rate * 0.8
LowRateLimit(day_rates) == FracMul(MeanRate(day_rates), Frac(8, 10))

\* The warnings, one per row of low_days in table order.  The message text
\* is kept as the weekday and the rate it is formatted from.
Warnings(day_rates) ==
    IF day_rates = <<>> THEN <<>>
    ELSE LET limit    == LowRateLimit(day_rates)
             low_days == SelectSeq(day_rates,
                                LAMBDA row : FracLess(row.RecyclingRate, limit))
         IN  [i \in 1..Len(low_days) |->
                 [type |-> "warning", day |-> low_days[i].DayOfWeek,
                  rate |-> low_days[i].RecyclingRate]]

\* total_food / len(daily_df) if not daily_df.empty else 0, in tonnes.
AvgFoodPerDay(total_food, daily_df) ==
    IF daily_df # <<>> THEN Frac(Tonnes(total_food)[1],
                                 Tonnes(total_food)[2] * Len(daily_df))
    ELSE FracZero

\* The threshold 0.2 tonnes per day.
FoodThreshold == Frac(2, 10)

\* The note given from the threshold on, not only above it.
FoodInsight_AtLeast(total_food, daily_df) ==
    LET avg_food_per_day == AvgFoodPerDay(total_food, daily_df)
    IN  IF ~FracLess(avg_food_per_day, FoodThreshold)
        THEN <<[type |-> "info", avg |-> avg_food_per_day]>>
        ELSE <<>>

FoodInsight(total_food, daily_df) ==
    LET avg_food_per_day == AvgFoodPerDay(total_food, daily_df)
    IN  IF FracLess(FoodThreshold, avg_food_per_day)
        THEN <<[type |-> "info", avg |-> avg_food_per_day]>>
        ELSE <<>>

\* selected_hotel = "" stands for None.
HotelFilter(df, selected_hotel) ==
    IF selected_hotel # "" /\ selected_hotel # "All Hotels"
    THEN SelectSeq(df, LAMBDA r : r.Hotel = selected_hotel)
    ELSE df

\* The result of one call: either the ten returned values, or the KeyError
\* raised by day_rates['Total Waste'] when pd.DataFrame([]) has no columns.
analyze_recycling(df0, selected_hotel) ==
    LET df         == SelectSeq(HotelFilter(df0, selected_hotel), PositiveWeight)
        daily_df   == DailyDf(df)
        overall    == calculate_recycling_rate(df)
        day_rates  == DayRates(df)
    IN  IF DayRatesAll(df) = <<>>
        THEN [status |-> "KeyError"]
        ELSE [status          |-> "returned",
              daily_df        |-> daily_df,
              overall_rate    |-> overall.rate,
              best_day        |-> BestDay(day_rates),
              worst_day       |-> WorstDay(day_rates),
              insights        |-> Warnings(day_rates)
                                    \o FoodInsight(overall.food, daily_df),
              day_rates       |-> day_rates,
              monthly_rates   |-> MonthlyRates(df),
              total_food      |-> overall.food,
              total_waste     |-> overall.total,
              weekly_daily_df |-> WeeklyDailyRates(df)]

-----------------------------------------------------------------------------
(* Uploaded files the model covers *)

D(y, m, d) == [y |-> y, m |-> m, d |-> d]

\* The date written YYYY-MM-DD.
IsoText(date) ==
    <<Digits[(date.y \div 1000) + 1], Digits[((date.y \div 100) % 10) + 1],
      Digits[((date.y \div 10) % 10) + 1], Digits[(date.y % 10) + 1], "-",
      Digits[(date.m \div 10) + 1], Digits[(date.m % 10) + 1], "-",
      Digits[(date.d \div 10) + 1], Digits[(date.d % 10) + 1]>>

\* A text with a time of day after it.
WithTime(text) == text \o <<"T", "0", "7", ":", "3", "0", ":", "0", "0">>

\* A row of the CSV whose SERVICE DATE cell holds the given text.
RawRow(text, postcode, type, weight) ==
    [date |-> text, postcode |-> postcode, type |-> type, weight |-> weight]

\* A row of the CSV for a date of the calendar.
Row(date, postcode, type, weight) ==
    RawRow(IsoText(date), postcode, type, weight)

NaN == <<>>

\* Monday and Tuesday of one ISO week.
Dates == {D(2024, 1, 1), D(2024, 1, 2)}

\* A postcode of the lookup table (Camden) and one it does not know.
Camden == "NW1 7BY"
NoSite == "ZZ9 9ZZ"
Postcodes == {Camden, NoSite}

\* A recyclable type, a type that only counts in the total, and an
\* unrecognised one.
WasteTypes == {"Mixed Recycling", "Food Waste", "Other"}

Weights == {<<0>>, <<1>>, <<3>>}

RowsOf(postcode) ==
    {Row(date, postcode, type, w) :
        date \in Dates, type \in WasteTypes, w \in Weights}

RECURSIVE FilesOfLen(_)
FilesOfLen(n) ==
    IF n = 0 THEN {<<>>}
    ELSE {Append(f, r) : f \in FilesOfLen(n - 1), r \in RowsOf(Camden)}

\* Every file of at most MaxRows rows of one site.
SmallFiles == UNION {FilesOfLen(n) : n \in 0..MaxRows}

\* Every file of one row of each of two sites, in either order.
TwoSiteFiles ==
    UNION {{<<r1, r2>>, <<r2, r1>>} : r1 \in RowsOf(Camden), r2 \in RowsOf(NoSite)}

\* Monday 2/5 recyclable, Tuesday 4/5 recyclable.
WeekdayExample ==
    <<Row(D(2024, 1, 1), Camden, "Mixed Recycling", <<20>>),
      Row(D(2024, 1, 1), Camden, "General Waste", <<30>>),
      Row(D(2024, 1, 2), Camden, "Food Waste", <<10>>),
      Row(D(2024, 1, 2), Camden, "Mixed Recycling", <<40>>)>>

\* One day with recyclable and general tenths of a tonne.
DayOf(date, recyclable, general) ==
    <<Row(date, Camden, "Mixed Recycling", <<recyclable>>),
      Row(date, Camden, "General Waste", <<general>>)>>

\* Weekday rates 40, 80, 60, 60, 60, 60, 60 from Monday to Sunday.
InsightExample ==
    DayOf(D(2024, 1, 1), 2, 3) \o DayOf(D(2024, 1, 2), 4, 1)
      \o DayOf(D(2024, 1, 3), 3, 2) \o DayOf(D(2024, 1, 4), 3, 2)
      \o DayOf(D(2024, 1, 5), 3, 2) \o DayOf(D(2024, 1, 6), 3, 2)
      \o DayOf(D(2024, 1, 7), 3, 2)

\* Missing, zero and negative weights beside counted ones, all three
\* recyclable types, two months and an unmapped postcode.
MixedExample ==
    <<Row(D(2024, 1, 1), Camden, "Glass", <<2>>),
      Row(D(2024, 1, 1), Camden, "General Waste", NaN),
      Row(D(2024, 1, 2), Camden, "General Waste", <<-5>>),
      Row(D(2024, 1, 3), NoSite, "Food Waste", <<0>>),
      Row(D(2024, 2, 5), Camden, "Cardboard", <<1>>),
      Row(D(2024, 2, 5), Camden, "General Waste", <<4>>),
      Row(D(2024, 2, 6), NoSite, "Mixed Recycling", <<1>>),
      Row(D(2024, 2, 6), "SW1V 1QF", "Food Waste", <<7>>)>>

\* The same ISO week number in two years, and a week that spans two months.
WeekExample ==
    <<Row(D(2024, 1, 8), Camden, "Mixed Recycling", <<1>>),
      Row(D(2025, 1, 6), Camden, "General Waste", <<1>>),
      Row(D(2024, 1, 31), Camden, "Food Waste", <<3>>),
      Row(D(2024, 2, 1), Camden, "Glass", <<2>>),
      Row(D(2024, 1, 29), Camden, "Other", <<2>>)>>

\* Weekday rates 40 and 60: the lower one is 0.8 times their mean.
LimitExample == DayOf(D(2024, 1, 1), 2, 3) \o DayOf(D(2024, 1, 2), 3, 2)

\* Dates with a time of day, as the portal exports them.
TimedExample ==
    <<RawRow(WithTime(IsoText(D(2024, 1, 1))), Camden, "Mixed Recycling", <<1>>),
      RawRow(WithTime(IsoText(D(2024, 1, 2))), Camden, "Food Waste", <<3>>),
      RawRow(IsoText(D(2024, 2, 29)), Camden, "General Waste", <<1>>)>>

ExampleFiles ==
    {WeekdayExample, InsightExample, LimitExample, MixedExample, WeekExample,
     TimedExample}

\* Texts that are no date: a word, a day the month does not have, and such
\* a text before a time of day.
UnreadableTexts ==
    {<<"n", "/", "a">>,
     <<"2", "0", "2", "4", "-", "0", "2", "-", "3", "0">>,
     WithTime(<<"2", "0", "2", "3", "-", "0", "2", "-", "2", "9">>)}

UnreadableRows ==
    {RawRow(text, Camden, type, <<1>>) :
        text \in UnreadableTexts, type \in {"Mixed Recycling", "Food Waste"}}

\* A row with an unreadable date put anywhere into a file of readable rows.
UnreadableFiles ==
    UNION {{SubSeq(f, 1, k) \o <<bad>> \o SubSeq(f, k + 1, Len(f)) :
                k \in 0..Len(f), bad \in UnreadableRows} :
           f \in {<<>>, WeekdayExample, TimedExample}}

Files == SmallFiles \cup TwoSiteFiles \cup ExampleFiles \cup UnreadableFiles

\* The labels a caller may filter by: None, the default, sites of the
\* files, and a site of the lookup table that no file mentions.
SiteLabels == {"", "All Hotels", "Camden", "Unknown", "EH"}

-----------------------------------------------------------------------------
(* The session *)

VARIABLES pc, uploaded_file, df, selected_hotel, out

vars == <<pc, uploaded_file, df, selected_hotel, out>>

NoOutput == [status |-> "none"]

Init ==
    /\ pc = "idle"
    /\ uploaded_file = <<>>
    /\ df = <<>>
    /\ selected_hotel = "All Hotels"
    /\ out = NoOutput

\* main() up to the select box: the uploaded file is loaded; an exception
\* of the loader ends the run of the script.
Upload(file) ==
    /\ pc = "idle"
    /\ uploaded_file' = file
    /\ LET loaded == load_and_process_data(file)
       IN  /\ df' = loaded.df
           /\ pc' = IF loaded.status = "loaded" THEN "loaded" ELSE "failed"
    /\ UNCHANGED <<selected_hotel, out>>

\* analyze_recycling(df, selected_hotel) on the loaded table.
Analyze(hotel) ==
    /\ pc = "loaded"
    /\ selected_hotel' = hotel
    /\ out' = analyze_recycling(df, hotel)
    /\ pc' = "analyzed"
    /\ UNCHANGED <<uploaded_file, df>>

\* Another site is about to be chosen: the script runs again on the same file.
Rerun ==
    /\ pc = "analyzed"
    /\ pc' = "loaded"
    /\ selected_hotel' = "All Hotels"
    /\ out' = NoOutput
    /\ UNCHANGED <<uploaded_file, df>>

\* The upload is removed: uploaded_file is None and nothing is computed.
Clear ==
    /\ pc \in {"loaded", "analyzed", "failed"}
    /\ pc' = "idle"
    /\ uploaded_file' = <<>>
    /\ df' = <<>>
    /\ selected_hotel' = "All Hotels"
    /\ out' = NoOutput

Next ==
    \/ \E file \in Files : Upload(file)
    \/ \E hotel \in SiteLabels : Analyze(hotel)
    \/ Rerun
    \/ Clear

Spec == Init /\ [][Next]_vars

-----------------------------------------------------------------------------
(* What the properties are measured against.  These definitions restate    *)
(* the arithmetic from the row data alone and use none of the aggregator.  *)

Returned == pc = "analyzed" /\ out.status = "returned"

\* A row that is counted: its weight is present and positive.
Counted(row) == row.weight # NaN /\ row.weight[1] >= 1

\* A row the site filter keeps.
InScope(row) == selected_hotel \in {"", "All Hotels"} \/ row.Hotel = selected_hotel

\* The filtered records: the rows the site filter keeps that are counted.
FilteredRows == SelectSeq(df, LAMBDA r : InScope(r) /\ Counted(r))

Recyclables == {"Mixed Recycling", "Glass", "Cardboard"}
Recognised  == Recyclables \cup {"General Waste", "Food Waste"}

\* Weight of the counted rows of the given types.
RECURSIVE WeightOf(_, _)
WeightOf(rows, types) ==
    IF rows = <<>> THEN 0
    ELSE (IF Counted(rows[1]) /\ rows[1].type \in types
          THEN rows[1].weight[1] ELSE 0) + WeightOf(Tail(rows), types)

\* rate, food and total are the summary of rows.
IsSummaryOf(rows, rate, food, total) ==
    LET recyclable == WeightOf(rows, Recyclables)
        general    == WeightOf(rows, {"General Waste"})
        foodw      == WeightOf(rows, {"Food Waste"})
    IN  /\ total = recyclable + general + foodw
        /\ food = foodw
        /\ rate[2] > 0
        /\ total = 0 => rate[1] = 0
        /\ total # 0 => rate[1] * total = 100 * recyclable * rate[2]

RowsOfDay(rows, day)     == SelectSeq(rows, LAMBDA r : r.DayOfWeek = day)
RowsOfMonth(rows, month) == SelectSeq(rows, LAMBDA r : r.Month = month)
RowsOfDate(rows, date)   == SelectSeq(rows, LAMBDA r : r.date = date)
RowsOfWeekDay(rows, week, day) ==
    SelectSeq(rows, LAMBDA r : iso_week(r.date) = week /\ r.DayOfWeek = day)

\* 0 <= rate <= 100
InPercentRange(rate) == rate[2] > 0 /\ 0 <= rate[1] /\ rate[1] <= 100 * rate[2]

-----------------------------------------------------------------------------
\* C1: every summary (of any table given to calculate_recycling_rate, and the
\* overall, per-weekday, per-month and per-(week, weekday) summaries of
\* analyze_recycling) has total = recyclable + general + food over the counted
\* rows, rate 0 when the total is 0 and rate = 100 * recyclable / total
\* otherwise.
C1_SummaryArithmetic ==
    pc = "analyzed" =>
        /\ LET c == calculate_recycling_rate(df)
           IN  IsSummaryOf(df, c.rate, c.food, c.total)
        /\ out.status = "returned" =>
            /\ IsSummaryOf(FilteredRows, out.overall_rate, out.total_food,
                           out.total_waste)
            /\ \A i \in 1..Len(out.day_rates) :
                 LET row == out.day_rates[i]
                 IN  IsSummaryOf(RowsOfDay(FilteredRows, row.DayOfWeek),
                                 row.RecyclingRate, row.FoodWaste, row.TotalWaste)
            /\ \A i \in 1..Len(out.monthly_rates) :
                 LET row == out.monthly_rates[i]
                 IN  IsSummaryOf(RowsOfMonth(FilteredRows, row.Month),
                                 row.RecyclingRate, row.FoodWaste, row.TotalWaste)
            /\ \A i \in 1..Len(out.weekly_daily_df) :
                 LET row == out.weekly_daily_df[i]
                 IN  IsSummaryOf(RowsOfWeekDay(FilteredRows, row.Week, row.DayOfWeek),
                                 row.RecyclingRate, row.FoodWaste, row.TotalWaste)

\* A result with recyclable, general and food weight and two weekdays.
C1_Witness ==
    /\ Returned
    /\ out.total_food > 0
    /\ WeightOf(FilteredRows, {"General Waste"}) > 0
    /\ WeightOf(FilteredRows, Recyclables) > 0
    /\ Len(out.day_rates) >= 2
    /\ Len(out.monthly_rates) >= 2

-----------------------------------------------------------------------------
\* C2: with a site label that matches no record, analyze_recycling returns:
\* the tables are empty, the overall total and rate are 0, and the best and
\* worst weekday are both "No Data" with rate 0.
C2_UnknownSiteGivesNoData ==
    (/\ pc = "analyzed"
     /\ selected_hotel \notin {"", "All Hotels"}
     /\ \A i \in 1..Len(df) : df[i].Hotel # selected_hotel)
    => /\ out.status = "returned"
       /\ out.day_rates = <<>>
       /\ out.monthly_rates = <<>>
       /\ out.weekly_daily_df = <<>>
       /\ out.daily_df = <<>>
       /\ out.total_waste = 0
       /\ out.overall_rate[1] = 0
       /\ out.best_day.DayOfWeek = "No Data" /\ out.best_day.RecyclingRate[1] = 0
       /\ out.worst_day.DayOfWeek = "No Data" /\ out.worst_day.RecyclingRate[1] = 0

-----------------------------------------------------------------------------
\* C3: rows whose weight is missing, zero or negative change nothing: the
\* results of analyze_recycling and of calculate_recycling_rate are those of
\* the table without these rows, and a bucket holding only such rows has
\* total 0 and rate 0.
WithoutUncounted(rows) == SelectSeq(rows, Counted)

C3_UncountedRowsIgnored ==
    pc = "analyzed" =>
        /\ out = analyze_recycling(WithoutUncounted(df), selected_hotel)
        /\ calculate_recycling_rate(df)
             = calculate_recycling_rate(WithoutUncounted(df))
        /\ \A day \in Range(DayNames) :
             LET bucket == RowsOfDay(df, day)
             IN  WithoutUncounted(bucket) = <<>> =>
                    /\ calculate_recycling_rate(bucket).total = 0
                    /\ calculate_recycling_rate(bucket).food = 0
                    /\ calculate_recycling_rate(bucket).rate[1] = 0

\* A result over a table in which a filtered site has counted rows, a row
\* without a positive weight, and a weekday with nothing but such rows.
C3_Witness ==
    /\ Returned
    /\ out.total_waste > 0
    /\ \E i \in 1..Len(df) : InScope(df[i]) /\ ~Counted(df[i])
    /\ \E day \in Range(DayNames) :
         /\ RowsOfDay(df, day) # <<>>
         /\ WithoutUncounted(RowsOfDay(df, day)) = <<>>

-----------------------------------------------------------------------------
\* C4: whatever the weights of the input, negative and missing ones included,
\* every returned rate is between 0 and 100 and every returned food and total
\* weight is at least 0.
C4_RatesAndWeightsInRange ==
    Returned =>
        /\ InPercentRange(out.overall_rate)
        /\ out.total_food >= 0 /\ out.total_waste >= 0
        /\ InPercentRange(out.best_day.RecyclingRate)
        /\ InPercentRange(out.worst_day.RecyclingRate)
        /\ \A i \in 1..Len(out.day_rates) :
             /\ InPercentRange(out.day_rates[i].RecyclingRate)
             /\ out.day_rates[i].FoodWaste >= 0
             /\ out.day_rates[i].TotalWaste >= 0
        /\ \A i \in 1..Len(out.monthly_rates) :
             /\ InPercentRange(out.monthly_rates[i].RecyclingRate)
             /\ out.monthly_rates[i].FoodWaste >= 0
             /\ out.monthly_rates[i].TotalWaste >= 0
        /\ \A i \in 1..Len(out.weekly_daily_df) :
             /\ InPercentRange(out.weekly_daily_df[i].RecyclingRate)
             /\ out.weekly_daily_df[i].FoodWaste >= 0
             /\ out.weekly_daily_df[i].TotalWaste >= 0
        /\ \A i \in 1..Len(out.daily_df) :
             /\ InPercentRange(out.daily_df[i].recycling_rate)
             /\ out.daily_df[i].food_waste >= 0
             /\ out.daily_df[i].total_waste >= 0

\* A result over rows of the filtered site with a negative and with a
\* missing weight.
C4_Witness ==
    /\ Returned
    /\ out.day_rates # <<>>
    /\ \E i \in 1..Len(df) :
         InScope(df[i]) /\ df[i].weight # NaN /\ df[i].weight[1] < 0
    /\ \E i \in 1..Len(df) : InScope(df[i]) /\ df[i].weight = NaN

-----------------------------------------------------------------------------
\* C5: when some weekday has positive total weight, the best weekday is a row
\* of the per-weekday table with the greatest rate and the worst weekday one
\* with the least rate; among the weekdays sharing that rate it is the one
\* whose first record comes first in the filtered records.  For the records
\* (Mon, Mixed Recycling, 2.0), (Mon, General Waste, 3.0), (Tue, Food Waste,
\* 1.0), (Tue, Mixed Recycling, 4.0) the best weekday is Tuesday at 80 and
\* the worst is Monday at 40.
FirstRecord(day) ==
    CHOOSE i \in 1..Len(FilteredRows) :
        /\ FilteredRows[i].DayOfWeek = day
        /\ \A j \in 1..(i - 1) : FilteredRows[j].DayOfWeek # day

SomeWeekdayHasWaste ==
    \E day \in Range(DayNames) :
        WeightOf(RowsOfDay(FilteredRows, day), Recognised) > 0

C5_BestAndWorstWeekday ==
    /\ (pc = "analyzed" /\ SomeWeekdayHasWaste) =>
         /\ out.status = "returned"
         /\ \E b \in 1..Len(out.day_rates) :
              /\ out.best_day = out.day_rates[b]
              /\ \A j \in 1..Len(out.day_rates) :
                   /\ ~FracLess(out.day_rates[b].RecyclingRate,
                                out.day_rates[j].RecyclingRate)
                   /\ out.day_rates[j].RecyclingRate = out.day_rates[b].RecyclingRate
                        => FirstRecord(out.day_rates[b].DayOfWeek)
                             <= FirstRecord(out.day_rates[j].DayOfWeek)
         /\ \E w \in 1..Len(out.day_rates) :
              /\ out.worst_day = out.day_rates[w]
              /\ \A j \in 1..Len(out.day_rates) :
                   /\ ~FracLess(out.day_rates[j].RecyclingRate,
                                out.day_rates[w].RecyclingRate)
                   /\ out.day_rates[j].RecyclingRate = out.day_rates[w].RecyclingRate
                        => FirstRecord(out.day_rates[w].DayOfWeek)
                             <= FirstRecord(out.day_rates[j].DayOfWeek)
    /\ (/\ pc = "analyzed"
        /\ df = load_and_process_data(WeekdayExample).df
        /\ selected_hotel \in {"", "All Hotels", "Camden"}) =>
         /\ out.status = "returned"
         /\ out.best_day.DayOfWeek = "Tuesday"
         /\ out.best_day.RecyclingRate = <<80, 1>>
         /\ out.worst_day.DayOfWeek = "Monday"
         /\ out.worst_day.RecyclingRate = <<40, 1>>

\* Two weekdays share the rate and the later one in the file comes first in
\* the calendar.
C5_Witness ==
    /\ Returned
    /\ Len(out.day_rates) = 2
    /\ out.day_rates[1].RecyclingRate = out.day_rates[2].RecyclingRate
    /\ out.day_rates[1].DayOfWeek = "Tuesday"
    /\ out.best_day.DayOfWeek = "Tuesday"
    /\ out.worst_day.DayOfWeek = "Tuesday"

-----------------------------------------------------------------------------
\* The weekdays that occur among the filtered records.
FilteredWeekdays == {FilteredRows[i].DayOfWeek : i \in 1..Len(FilteredRows)}

\* The per-weekday table has exactly one row for each weekday of the set.
OneRowPerWeekdayOf(days) ==
    /\ \A day \in days :
         Cardinality({i \in 1..Len(out.day_rates) :
                         out.day_rates[i].DayOfWeek = day}) = 1
    /\ \A i \in 1..Len(out.day_rates) : out.day_rates[i].DayOfWeek \in days

\* C6 as stated: the per-weekday table has exactly one row for each distinct
\* weekday that occurs among the filtered records.
C6_RowForEveryWeekday == Returned => OneRowPerWeekdayOf(FilteredWeekdays)

\* C6: the per-weekday table has exactly one row for each distinct weekday
\* among the filtered records whose recyclable, general and food weight
\* together is positive, and no other row.
C6_RowForEveryWeekdayWithWaste ==
    Returned =>
        OneRowPerWeekdayOf(
            {day \in FilteredWeekdays :
                WeightOf(RowsOfDay(FilteredRows, day), Recognised) > 0})

\* One weekday has a row and another, with unrecognised waste only, has none.
C6_Witness ==
    /\ Returned
    /\ out.day_rates # <<>>
    /\ \E day \in FilteredWeekdays :
         WeightOf(RowsOfDay(FilteredRows, day), Recognised) = 0

-----------------------------------------------------------------------------
\* The rows the site filter keeps exist, all have a positive weight and none
\* has a recognised waste type.
OnlyUnrecognisedWaste ==
    LET kept == SelectSeq(df, InScope)
    IN  /\ kept # <<>>
        /\ \A i \in 1..Len(kept) :
             Counted(kept[i]) /\ kept[i].type \notin Recognised

IsWarning(insight) == insight.type = "warning"
IsInfo(insight)    == insight.type = "info"

\* C7: when the filtered records all have positive weight and none has a
\* recognised waste type, analyze_recycling returns, the best and the worst
\* weekday are both "No Data" with rate 0 and there is no warning.
C7_UnrecognisedOnlyGivesNoData ==
    (pc = "analyzed" /\ OnlyUnrecognisedWaste) =>
        /\ out.status = "returned"
        /\ out.best_day.DayOfWeek = "No Data"
        /\ out.best_day.RecyclingRate[1] = 0
        /\ out.worst_day.DayOfWeek = "No Data"
        /\ out.worst_day.RecyclingRate[1] = 0
        /\ \A i \in 1..Len(out.insights) : ~IsWarning(out.insights[i])

\* Unrecognised waste on two weekdays of the filtered site.
C7_Witness ==
    /\ pc = "analyzed"
    /\ OnlyUnrecognisedWaste
    /\ Cardinality({df[i].DayOfWeek : i \in {k \in 1..Len(df) : InScope(df[k])}}) = 2
    /\ selected_hotel = "Camden"

-----------------------------------------------------------------------------
RECURSIVE TotalOfRates(_)
TotalOfRates(rows) ==
    IF rows = <<>> THEN <<0, 1>>
    ELSE FracAdd(rows[1].RecyclingRate, TotalOfRates(Tail(rows)))

\* rate < 0.8 * (sum of the table's rates / number of rows)
BelowFourFifthsOfMean(rate) ==
    FracLess(FracMul(<<5 * Len(out.day_rates), 1>>, rate),
             FracMul(<<4, 1>>, TotalOfRates(out.day_rates)))

WarningsFor(day) ==
    Cardinality({i \in 1..Len(out.insights) :
                    IsWarning(out.insights[i]) /\ out.insights[i].day = day})

\* C8: the insights hold exactly one warning for each weekday of the
\* per-weekday table whose rate is strictly below 0.8 times the mean of the
\* table's rates and none for any other weekday; for the weekday rates 40,
\* 80, 60, 60, 60, 60, 60 only the weekday at 40 gets one.
C8_WarningPerLowWeekday ==
    /\ Returned =>
         /\ \A i \in 1..Len(out.day_rates) :
              WarningsFor(out.day_rates[i].DayOfWeek)
                = IF BelowFourFifthsOfMean(out.day_rates[i].RecyclingRate)
                  THEN 1 ELSE 0
         /\ \A i \in 1..Len(out.insights) :
              IsWarning(out.insights[i]) =>
                 \E j \in 1..Len(out.day_rates) :
                    out.day_rates[j].DayOfWeek = out.insights[i].day
    /\ (/\ pc = "analyzed"
        /\ df = load_and_process_data(InsightExample).df
        /\ selected_hotel \in {"", "All Hotels", "Camden"}) =>
         /\ out.status = "returned"
         /\ [i \in 1..Len(out.day_rates) |-> out.day_rates[i].RecyclingRate]
              = <<<<40, 1>>, <<80, 1>>, <<60, 1>>, <<60, 1>>, <<60, 1>>,
                  <<60, 1>>, <<60, 1>>>>
         /\ SelectSeq(out.insights, IsWarning)
              = <<[type |-> "warning", day |-> "Monday", rate |-> <<40, 1>>]>>

\* The seven weekday rates of the example, with the one warning.
C8_Witness ==
    /\ Returned
    /\ df = load_and_process_data(InsightExample).df
    /\ Len(out.day_rates) = 7
    /\ WarningsFor("Monday") = 1
    /\ WarningsFor("Wednesday") = 0

-----------------------------------------------------------------------------
\* At most one food-waste note, after every warning, and present exactly
\* when the food weight (tenths of a tonne) over the number of days is
\* above 0.2 tonnes; with no day the mean is 0.
FoodNoteWhenMeanAbove(food, days) ==
    LET notes == {i \in 1..Len(out.insights) : IsInfo(out.insights[i])}
    IN  /\ Cardinality(notes) <= 1
        /\ notes # {} <=> (days > 0 /\ food > 2 * days)
        /\ \A i \in notes : \A j \in 1..Len(out.insights) :
             IsWarning(out.insights[j]) => j < i

FilteredDates == {FilteredRows[i].date : i \in 1..Len(FilteredRows)}

\* C9 as stated: the food-waste note is present exactly when the food weight
\* of the filtered records divided by the number of their distinct service
\* dates is above 0.2 tonnes; there is at most one note and it follows every
\* warning.
C9_FoodNotePerServiceDate ==
    Returned =>
        FoodNoteWhenMeanAbove(WeightOf(FilteredRows, {"Food Waste"}),
                              Cardinality(FilteredDates))

\* C9: the food-waste note is present exactly when the food weight of the
\* filtered records divided by the number of service dates whose recyclable,
\* general and food weight together is positive (the rows of the per-date
\* table) is above 0.2 tonnes, the mean being 0 when there is no such date;
\* there is at most one note and it follows every warning.
C9_FoodNotePerDateWithWaste ==
    Returned =>
        FoodNoteWhenMeanAbove(
            WeightOf(FilteredRows, {"Food Waste"}),
            Cardinality({date \in FilteredDates :
                WeightOf(RowsOfDate(FilteredRows, date), Recognised) > 0}))

\* A note is given although the food weight per service date is not above
\* 0.2 tonnes: one service date has unrecognised waste only.
C9_Witness ==
    /\ Returned
    /\ \E i \in 1..Len(out.insights) : IsInfo(out.insights[i])
    /\ WeightOf(FilteredRows, {"Food Waste"}) <= 2 * Cardinality(FilteredDates)

-----------------------------------------------------------------------------
\* Loaded rows of an unrecognised waste type: on a date and in a month the
\* small files have, or on a new date in a new month, for either postcode.
UnrecognisedRows ==
    {load_and_process_data(<<Row(date, postcode, "Other", <<1>>)>>).df[1] :
        date \in {D(2024, 1, 1), D(2024, 2, 5)}, postcode \in Postcodes}

InsertAt(rows, k, row) ==
    SubSeq(rows, 1, k) \o <<row>> \o SubSeq(rows, k + 1, Len(rows))

\* Every row of the table before has a row with its key and values after.
BucketsKept(before, after, Key(_), Values(_)) ==
    \A i \in 1..Len(before) :
        \E j \in 1..Len(after) :
            Key(after[j]) = Key(before[i]) /\ Values(after[j]) = Values(before[i])

RateFoodTotal(row) == <<row.RecyclingRate, row.FoodWaste, row.TotalWaste>>

\* C10: adding a record of an unrecognised waste type, anywhere, leaves the
\* overall rate, food and total unchanged, and the rate, food and total of
\* every weekday, month, week-and-weekday and date bucket there was.
C10_UnrecognisedRowChangesNothing ==
    Returned =>
        \A row \in UnrecognisedRows : \A k \in 0..Len(df) :
            LET after == analyze_recycling(InsertAt(df, k, row), selected_hotel)
            IN  /\ after.status = "returned"
                /\ after.overall_rate = out.overall_rate
                /\ after.total_food = out.total_food
                /\ after.total_waste = out.total_waste
                /\ BucketsKept(out.day_rates, after.day_rates,
                               LAMBDA r : r.DayOfWeek, RateFoodTotal)
                /\ BucketsKept(out.monthly_rates, after.monthly_rates,
                               LAMBDA r : r.Month, RateFoodTotal)
                /\ BucketsKept(out.weekly_daily_df, after.weekly_daily_df,
                               LAMBDA r : <<r.Week, r.DayOfWeek>>, RateFoodTotal)
                /\ BucketsKept(out.daily_df, after.daily_df,
                               LAMBDA r : r.date,
                               LAMBDA r : <<r.recycling_rate, r.food_waste,
                                            r.total_waste>>)

\* A result with a rate strictly between 0 and 100 over a table that already
\* holds a counted row of an unrecognised type.
C10_Witness ==
    /\ Returned
    /\ out.overall_rate[1] > 0
    /\ out.total_food > 0
    /\ \E i \in 1..Len(FilteredRows) : FilteredRows[i].type \notin Recognised

-----------------------------------------------------------------------------
\* The calendar week of a date, named by the ordinal of its Monday.
CalendarWeek(date) == ToOrdinal(date) - Weekday(date)

\* The rows of the per-(week, weekday) table that a record is summed into.
WeekRowsHolding(row) ==
    {i \in 1..Len(out.weekly_daily_df) :
        /\ out.weekly_daily_df[i].Week = iso_week(row.date)
        /\ out.weekly_daily_df[i].DayOfWeek = row.DayOfWeek}

\* The earliest date among the dates.
Earliest(dates) ==
    CHOOSE a \in dates : \A b \in dates : ToOrdinal(a) <= ToOrdinal(b)

\* C11: the per-(ISO week, weekday) table has one row for each (ISO week,
\* weekday) pair among the filtered records, every row of a week is labelled
\* with the earliest service date of that week among the filtered records,
\* and two records of different calendar weeks never share a row or a label.
C11_RowPerWeekAndWeekday ==
    Returned =>
        /\ \A i \in 1..Len(FilteredRows) :
             Cardinality(WeekRowsHolding(FilteredRows[i])) = 1
        /\ \A i \in 1..Len(out.weekly_daily_df) :
             /\ \E j \in 1..Len(FilteredRows) : i \in WeekRowsHolding(FilteredRows[j])
             /\ out.weekly_daily_df[i].WeekStart
                  = Earliest({FilteredRows[j].date :
                                j \in {k \in 1..Len(FilteredRows) :
                                         iso_week(FilteredRows[k].date)
                                           = out.weekly_daily_df[i].Week}})
        /\ \A i, j \in 1..Len(FilteredRows) :
             CalendarWeek(FilteredRows[i].date) # CalendarWeek(FilteredRows[j].date)
               => \A a \in WeekRowsHolding(FilteredRows[i]) :
                    \A b \in WeekRowsHolding(FilteredRows[j]) :
                       /\ a # b
                       /\ out.weekly_daily_df[a].WeekStart
                            # out.weekly_daily_df[b].WeekStart

-----------------------------------------------------------------------------
\* A row of the uploaded file whose date cannot be read.
Unreadable(raw) == ~IsDateText(DatePart(raw.date))

-----------------------------------------------------------------------------
\* The sum of a column of numbers.
RECURSIVE SumOf(_)
SumOf(column) ==
    IF column = <<>> THEN 0 ELSE column[1] + SumOf(Tail(column))

\* C14: whenever analyze_recycling returns, the total waste of the rows of
\* the per-weekday table, of the per-date table and of the per-month table
\* each add up to the overall total waste, likewise the food waste, and with
\* a positive overall total the overall rate lies between the worst and the
\* best weekday rate.
C14_GroupingsPartitionOverall ==
    Returned =>
        /\ SumOf([i \in 1..Len(out.day_rates) |-> out.day_rates[i].TotalWaste]) = out.total_waste
        /\ SumOf([i \in 1..Len(out.day_rates) |-> out.day_rates[i].FoodWaste]) = out.total_food
        /\ SumOf([i \in 1..Len(out.daily_df) |-> out.daily_df[i].total_waste]) = out.total_waste
        /\ SumOf([i \in 1..Len(out.daily_df) |-> out.daily_df[i].food_waste]) = out.total_food
        /\ SumOf([i \in 1..Len(out.monthly_rates) |-> out.monthly_rates[i].TotalWaste]) = out.total_waste
        /\ SumOf([i \in 1..Len(out.monthly_rates) |-> out.monthly_rates[i].FoodWaste]) = out.total_food
        /\ out.total_waste > 0 =>
             /\ ~FracLess(out.overall_rate, out.worst_day.RecyclingRate)
             /\ ~FracLess(out.best_day.RecyclingRate, out.overall_rate)

\* Several weekdays, months and dates, one of them without recyclable
\* weight, and an overall rate strictly between the worst and the best.
C14_Witness ==
    /\ Returned
    /\ Len(out.day_rates) >= 2
    /\ Len(out.monthly_rates) >= 2
    /\ Len(out.daily_df) >= 3
    /\ \E i \in 1..Len(out.daily_df) : out.daily_df[i].recyclable = 0
    /\ out.total_food > 0
    /\ FracLess(out.worst_day.RecyclingRate, out.overall_rate)
    /\ FracLess(out.overall_rate, out.best_day.RecyclingRate)

====
